---- MODULE Spec2Model ----
(***************************************************************************)
(* A model of scripts/kat/spectra.py: the smoothing filter, the k-mer      *)
(* spectra's initial peak location, local refinement, pruning, the global  *)
(* fit, and the genome metrics computed from the fitted peaks.             *)
(*                                                                         *)
(* Numbers.  Histogram counts, peak heights, peak means and volumes are    *)
(* integers.  Values the code divides are exact rationals <<num, den>> in  *)
(* lowest terms.  A candidate frequency mu may be a half (fmax / 2.0), so  *)
(* it is carried doubled (mu2 = 2 * mu); a peak's stddev is sqrt(mu) at    *)
(* creation and is carried as stddevSq2 = 2 * stddev^2, which is mu2.      *)
(* A histogram or curve of N bins is a sequence; At(h, i) is its value at  *)
(* bin i of 0 .. N-1, as the code indexes it.  The peak list is a          *)
(* sequence, indexed from 1 as enumerate(.., start=1) does.                *)
(***************************************************************************)
EXTENDS Integers, Sequences, TLC

VARIABLES
    histogram,     \* Spectra.histogram
    k,             \* Spectra.k
    haploid,       \* KmerSpectra.haploid
    peaks,         \* Spectra.peaks: NoPeaks (None) or PeakList(a sequence of peaks)
    Ty,            \* Spectra.Ty, the fitted curve
    fmin,          \* KmerSpectra.fmin
    fmax,          \* KmerSpectra.fmax
    min_elements,  \* the argument of analyse()
    pc,            \* where analyse() is: "new", "refine", "prune", "fit", "done"
    p_i,           \* the peak the local refinement loop is at
    prefit,        \* the peak list as optimise() found it
    fit,           \* how the global fit ended
    stderr,        \* what analyse() wrote to sys.stderr
    ret            \* the last call made on the analysed spectra, and its result

vars == <<histogram, k, haploid, peaks, Ty, fmin, fmax, min_elements, pc, p_i,
          prefit, fit, stderr, ret>>

-----------------------------------------------------------------------------
(* Bounds of the inputs *)

\* histogram counts: the floor level is 0 .. MaxLevel, a spike adds MaxSpike
MaxLevel == 2
\* the longest sequence handed to smooth
MaxLen == 5
\* the largest value in a sequence handed to smooth
MaxVal == 2
\* the largest window handed to smooth
MaxWin == 5
\* analyse(min_elements) is drawn from 0 .. MaxMinElements
MaxMinElements == 2
\* calcGenomeSize(hom_peak) is drawn from 0 .. MaxHomPeak
MaxHomPeak == 2

-----------------------------------------------------------------------------
(* Program constants *)

DefaultK == 27
MinFmax == 10
MinWindow == 3
FarDelta == 1000000

\* self.peaks is None, or a list
NoPeaks == [none |-> TRUE, list |-> <<>>]
PeakList(l) == [none |-> FALSE, list |-> l]
NoCall == [op |-> "none", args |-> <<>>, exc |-> "", val |-> 0]

-----------------------------------------------------------------------------
(* Arithmetic *)

Abs(n) == IF n < 0 THEN -n ELSE n

Min(S) == CHOOSE m \in S : \A n \in S : m <= n

RECURSIVE GCD(_, _)
GCD(a, b) == IF b = 0 THEN a ELSE GCD(b, a % b)

\* the rational n / d (d > 0) in lowest terms
Rat(n, d) == LET g == GCD(Abs(n), d) IN <<n \div g, d \div g>>

RAdd(a, b) == Rat(a[1] * b[2] + b[1] * a[2], a[2] * b[2])

\* a / b, b a non-zero rational
RDiv(a, b) ==
    IF b[1] > 0 THEN Rat(a[1] * b[2], a[2] * b[1])
    ELSE Rat(-(a[1] * b[2]), a[2] * (-b[1]))

\* floor(sqrt(n)), n >= 0
ISqrt(n) == CHOOSE r \in 0..n : r * r <= n /\ (r + 1) * (r + 1) > n

\* len(h)
HLen(h) == Len(h)

\* h[i], i in 0 .. len(h) - 1
At(h, i) == h[i + 1]

\* np.zeros_like(self.Tx)
Zeros(N) == [x \in 1..N |-> 0]

-----------------------------------------------------------------------------
(* The Peak collaborator (peak.py): its contract, as spectra.py uses it *)

\* Peak(mean, stddev, peak, primary)
Peak(mean, stddevSq2, peak, primary) ==
    [mean |-> mean, stddevSq2 |-> stddevSq2, peak |-> peak,
     primary |-> primary, description |-> "", hasTy |-> FALSE]

\* the bins on either side of the mean the peak's curve covers: floor(stddev)
Spread(p) == ISqrt(p.stddevSq2 \div 2)

\* Peak.Ty at bin x: a bell around the mean, the full height at the mean and
\* half of it within one stddev
CurveAt(p, w, x) ==
    IF x = p.mean THEN p.peak
    ELSE IF Abs(x - p.mean) <= w THEN p.peak \div 2
    ELSE 0

\* Peak.Ty over a histogram of N bins, once the peak has been fitted or updated
Curve(N, p) ==
    LET w == Spread(p)
    IN  [x \in 1..N |-> IF p.hasTy THEN CurveAt(p, w, x - 1) ELSE 0]

RECURSIVE SumCurve(_, _, _, _)
SumCurve(p, w, from, to) ==
    IF from > to THEN 0 ELSE CurveAt(p, w, from) + SumCurve(p, w, from + 1, to)

\* Peak.elements(): the volume under the peak's curve over the N bins (the
\* curve is zero outside mean - w .. mean + w)
Elements(N, p) ==
    LET w == Spread(p)
        lo == IF p.mean - w < 0 THEN 0 ELSE p.mean - w
        hi == IF p.mean + w > N - 1 THEN N - 1 ELSE p.mean + w
    IN  SumCurve(p, w, lo, hi)

\* Peak.updateModel(mean, peak, stddev)
PeakUpdateModel(p, new_mean, new_peak, new_stddevSq2) ==
    [p EXCEPT !.mean = new_mean, !.peak = new_peak, !.stddevSq2 = new_stddevSq2,
              !.hasTy = TRUE]

\* Peak.optimise(histogram): the peak refits itself; what it may become
PeakOptimise(p) ==
    { PeakUpdateModel(p, p.mean + d[1], p.peak - d[2], p.stddevSq2) :
        d \in {<<0, 0>>, <<1, 0>>} \cup (IF p.peak > 0 THEN {<<0, 1>>} ELSE {}) }

-----------------------------------------------------------------------------
(* KmerSpectra._createInitialPeaks *)

\* the scan looking one bin ahead only
FindFminOneStep(h) ==
    LET found == { i \in 1..(HLen(h) - 3) : At(h, i) < At(h, i + 1) }
    IN  IF found = {} THEN 0 ELSE Min(found)

\* the first i in range(1, len - 2) with h[i] < h[i+1] and h[i] < h[i+2], or 0
FindFmin(h) ==
    LET found == { i \in 1..(HLen(h) - 3) :
                     At(h, i) < At(h, i + 1) /\ At(h, i) < At(h, i + 2) }
    IN  IF found = {} THEN 0 ELSE Min(found)

\* np.argmax(h[fmin:]) + fmin: the first position of the largest value
ArgMaxFrom(h, from) ==
    Min({ i \in from..(HLen(h) - 1) :
            \A j \in from..(HLen(h) - 1) : At(h, j) <= At(h, i) })

FindFmax(h, fmin_) == IF fmin_ = 0 THEN 0 ELSE ArgMaxFrom(h, fmin_)

\* the candidate frequencies, doubled: fmax / 2.0 unless haploid, then fmax * i
Frequencies(fmax_, haploid_) ==
    (IF haploid_ THEN <<>> ELSE <<fmax_>>)
        \o [i \in 1..4 |-> 2 * fmax_ * i]

\* int(sqrt(mu) * 2.0)
Radius(mu2) == ISqrt(2 * mu2)

\* int(mu)
IntMean(mu2) == mu2 \div 2

\* the condition with "mean >= fmin" for "mean > fmin"
AcceptsAtFmin(h, fmin_, mu2) ==
    /\ Radius(mu2) >= 2
    /\ IntMean(mu2) >= fmin_
    /\ mu2 - 2 * Radius(mu2) > 0
    /\ mu2 + 2 * Radius(mu2) < 2 * HLen(h)

\* the condition under which a candidate becomes a peak
Accepts(h, fmin_, mu2) ==
    /\ Radius(mu2) >= 2
    /\ IntMean(mu2) > fmin_
    /\ mu2 - 2 * Radius(mu2) > 0
    /\ mu2 + 2 * Radius(mu2) < 2 * HLen(h)

RECURSIVE PeaksFrom(_, _, _, _, _)
PeaksFrom(h, fmin_, fmax_, freqs, i) ==
    IF i > Len(freqs) THEN <<>>
    ELSE LET mu2 == freqs[i]
             rest == PeaksFrom(h, fmin_, fmax_, freqs, i + 1)
         IN  IF Accepts(h, fmin_, mu2)
             THEN <<Peak(IntMean(mu2), mu2, At(h, IntMean(mu2)),
                         IntMean(mu2) = fmax_)>> \o rest
             ELSE rest

\* what _createInitialPeaks leaves in fmin, fmax and peaks
CreateInitialPeaks(h, haploid_) ==
    LET fmin_ == FindFmin(h)
        fmax_ == FindFmax(h, fmin_)
    IN  [fmin |-> fmin_, fmax |-> fmax_,
         peaks |-> IF fmax_ < MinFmax THEN NoPeaks
                   ELSE PeakList(PeaksFrom(h, fmin_, fmax_,
                                           Frequencies(fmax_, haploid_), 1))]

\* "if self.peaks:" -- neither None nor an empty list
Truthy(pk) == ~pk.none /\ pk.list # <<>>

-----------------------------------------------------------------------------
(* Construction *)

\* a histogram of N bins at a floor level, one bin lower at dip (when the
\* floor allows it) and a spike of height a at bin spike
MkHist(N, lvl, dip, spike, a) ==
    [x \in 1..N |->
        IF x - 1 = spike THEN lvl + a
        ELSE IF x - 1 = dip /\ lvl > 0 THEN lvl - 1
        ELSE lvl]

\* KmerSpectra.__init__(histogram, haploid, k), then the argument of analyse()
Construct(h, haploid_, k_, me) ==
    /\ histogram = h
    /\ k = k_
    /\ haploid = haploid_
    /\ peaks = NoPeaks
    /\ Ty = Zeros(HLen(h))
    /\ fmax = 0
    /\ fmin = 0
    /\ min_elements = me
    /\ pc = "new"
    /\ p_i = 0
    /\ prefit = NoPeaks
    /\ fit = "none"
    /\ stderr = <<>>
    /\ ret = NoCall

LocateLengths == {0, 2, 12, 16, 17, 28, 29, 40, 41, 52, 53, 60}
LocateDips == {0, 1, 4, 5, 6, 9, 11, 13}
LocateSpikes == {0, 5, 8, 9, 10, 11, 12, 13}

InitLocate ==
    \E N \in LocateLengths, lvl \in 0..MaxLevel, dip \in LocateDips,
       spike \in LocateSpikes, a \in 0..1, hap \in BOOLEAN :
        Construct(MkHist(N, lvl, dip, spike, a), hap, DefaultK, 1)

\* analyse(): self._createInitialPeaks(), then "if self.peaks:"
AnalyseLocate ==
    /\ pc = "new"
    /\ LET c == CreateInitialPeaks(histogram, haploid)
       IN  /\ fmin' = c.fmin
           /\ fmax' = c.fmax
           /\ peaks' = c.peaks
           /\ IF Truthy(c.peaks)
              THEN pc' = "refine" /\ p_i' = 1 /\ fit' = fit
              ELSE pc' = "done" /\ p_i' = p_i /\ fit' = "skipped"
    /\ UNCHANGED <<histogram, k, haploid, Ty, min_elements, prefit, stderr, ret>>

SpecLocate == InitLocate /\ [][AnalyseLocate]_vars

-----------------------------------------------------------------------------
(* Spectra.analyse: local refinement, pruning, the global fit *)

\* analyse(): "for p_i, p in enumerate(self.peaks): p.optimise(self.histogram)"
LocalOptimise ==
    /\ pc = "refine"
    /\ \E q \in PeakOptimise(peaks.list[p_i]) :
          peaks' = [peaks EXCEPT !.list[p_i] = q]
    /\ p_i' = p_i + 1
    /\ pc' = IF p_i = Len(peaks.list) THEN "prune" ELSE "refine"
    /\ UNCHANGED <<histogram, k, haploid, Ty, fmin, fmax, min_elements, prefit,
                   fit, stderr, ret>>

\* filter(lambda p: p.elements() >= min_elements, self.peaks)
Filter(N, list, me) ==
    LET Keep(p) == Elements(N, p) >= me IN SelectSeq(list, Keep)

\* analyse(): remove any peaks that contain little to no content
Prune ==
    /\ pc = "prune"
    /\ peaks' = PeakList(Filter(HLen(histogram), peaks.list, min_elements))
    /\ pc' = "fit"
    /\ UNCHANGED <<histogram, k, haploid, Ty, fmin, fmax, min_elements, p_i,
                   prefit, fit, stderr, ret>>

\* upper bounds that leave each height room to grow by one
UpperBoundsLoose(list) == [i \in 1..Len(list) |-> list[i].peak + 1]

\* optimise(): params and upper_bounds, one entry per peak: p.peak()
UpperBounds(list) == [i \in 1..Len(list) |-> list[i].peak]

\* optimise(): lower_bounds
LowerBounds(list) == [i \in 1..Len(list) |-> 0]

SeqMax(q) == IF q = <<>> THEN 0 ELSE CHOOSE m \in {q[i] : i \in 1..Len(q)} :
                                        \A i \in 1..Len(q) : q[i] <= m

\* scipy's optimize.least_squares(fun, x0, bounds=(lb, ub)): it refuses bounds
\* with lb >= ub somewhere; otherwise it ends inside the bounds, converged
\* (success) or not, or raises
LeastSquares(x0, lb, ub) ==
    IF \E i \in 1..Len(ub) : lb[i] >= ub[i]
    THEN {[exc |-> "ValueError", success |-> FALSE, x |-> x0]}
    ELSE {[exc |-> "ValueError", success |-> FALSE, x |-> x0],
          [exc |-> "", success |-> FALSE, x |-> x0]}
         \cup { [exc |-> "", success |-> TRUE, x |-> x] :
                  x \in { y \in [1..Len(ub) -> 0..SeqMax(ub)] :
                            \A i \in 1..Len(ub) : lb[i] <= y[i] /\ y[i] <= ub[i] } }

\* the sum that leaves out the first peak
RECURSIVE SumTySkipsFirst(_, _, _)
SumTySkipsFirst(N, list, n) ==
    IF n <= 1 THEN Zeros(N)
    ELSE LET acc == SumTySkipsFirst(N, list, n - 1)
             c == Curve(N, list[n])
         IN  [x \in 1..N |-> acc[x] + c[x]]

\* _updateModel(): "for p in self.peaks: self.Ty += p.Ty", from zeros
RECURSIVE SumTy(_, _, _)
SumTy(N, list, n) ==
    IF n = 0 THEN Zeros(N)
    ELSE LET acc == SumTy(N, list, n - 1)
             c == Curve(N, list[n])
         IN  [x \in 1..N |-> acc[x] + c[x]]

\* _updateModel(params): each peak keeps its mean and stddev and takes its
\* height from params; Ty is summed afresh
UpdateModel(N, list, params) ==
    IF Len(params) # Len(list)
    THEN [exc |-> "ValueError", list |-> list, Ty |-> Zeros(N)]
    ELSE LET new == [i \in 1..Len(list) |->
                        PeakUpdateModel(list[i], list[i].mean, params[i],
                                        list[i].stddevSq2)]
         IN  [exc |-> "", list |-> new, Ty |-> SumTy(N, new, Len(new))]

Warning == "WARNING: problem optimising peaks."

\* analyse(): "try: self.optimise() except Exception as inst: print(.., file=sys.stderr)"
GlobalFit ==
    /\ pc = "fit"
    /\ prefit' = peaks
    /\ pc' = "done"
    /\ IF ~Truthy(peaks)
       THEN \* optimise(): "if not self.peaks: raise ValueError"
            /\ fit' = "raised"
            /\ stderr' = stderr \o <<Warning, "ValueError">>
            /\ UNCHANGED <<peaks, Ty>>
       ELSE \E res \in LeastSquares(UpperBounds(peaks.list),
                                    LowerBounds(peaks.list),
                                    UpperBounds(peaks.list)) :
              IF res.exc # ""
              THEN /\ fit' = "raised"
                   /\ stderr' = stderr \o <<Warning, res.exc>>
                   /\ UNCHANGED <<peaks, Ty>>
              ELSE IF res.success
              THEN LET u == UpdateModel(HLen(histogram), peaks.list, res.x)
                   IN  IF u.exc # ""
                       THEN /\ fit' = "raised"
                            /\ stderr' = stderr \o <<Warning, u.exc>>
                            /\ UNCHANGED <<peaks, Ty>>
                       ELSE /\ fit' = "ok"
                            /\ peaks' = PeakList(u.list)
                            /\ Ty' = u.Ty
                            /\ stderr' = stderr
              ELSE /\ fit' = "notconverged"
                   /\ UNCHANGED <<peaks, Ty, stderr>>
    /\ UNCHANGED <<histogram, k, haploid, fmin, fmax, min_elements, p_i, ret>>

-----------------------------------------------------------------------------
(* KmerSpectra: the genome metrics *)

\* getHomozygousPeakIndex, approx_freq > 0: the loop from peak i on, holding
\* min_peak_index and delta_peak_freq
RECURSIVE ClosestPeak(_, _, _, _, _)
ClosestPeak(list, approx_freq, i, min_peak_index, delta_peak_freq) ==
    IF i > Len(list) THEN min_peak_index
    ELSE LET delta == Abs(list[i].mean - approx_freq)
         IN  IF delta_peak_freq > delta
             THEN ClosestPeak(list, approx_freq, i + 1, i, delta)
             ELSE ClosestPeak(list, approx_freq, i + 1, min_peak_index,
                              delta_peak_freq)

\* getHomozygousPeakIndex, no frequency: the first peak with
\* abs(mean - fmax) < 1.0, or 0
PrimaryPeak(list, fmax_) ==
    LET near == { i \in 1..Len(list) : Abs(list[i].mean - fmax_) < 1 }
    IN  IF near = {} THEN 0 ELSE Min(near)

\* getHomozygousPeakIndex(approx_freq); iterating self.peaks raises when it
\* is None
GetHomozygousPeakIndex(pk, fmax_, approx_freq) ==
    IF pk.none THEN [exc |-> "TypeError", val |-> 0]
    ELSE IF approx_freq > 0
    THEN [exc |-> "", val |-> ClosestPeak(pk.list, approx_freq, 1, 0, FarDelta)]
    ELSE [exc |-> "", val |-> PrimaryPeak(pk.list, fmax_)]

\* the loop weighting the peaks after the homozygous one by i - hom_peak_index
RECURSIVE GenomeSizeLoopOffByOne(_, _, _, _, _)
GenomeSizeLoopOffByOne(N, list, hom_peak_index, i, sum) ==
    IF i > Len(list) THEN [sum |-> sum, list |-> list]
    ELSE LET e == Elements(N, list[i])
         IN  IF i > hom_peak_index
             THEN LET delta == i - hom_peak_index
                  IN  GenomeSizeLoopOffByOne(N,
                          [list EXCEPT ![i].description = ToString(delta) \o "X"],
                          hom_peak_index, i + 1, RAdd(sum, Rat(delta * e, 1)))
             ELSE IF i < hom_peak_index
             THEN LET delta == hom_peak_index - i + 1
                      d == "1/" \o ToString(delta) \o "X"
                  IN  GenomeSizeLoopOffByOne(N,
                          [list EXCEPT ![i].description =
                              IF d = "1/2X" THEN "1/2X (Heterozygous)" ELSE d],
                          hom_peak_index, i + 1, RAdd(sum, Rat(e, delta)))
             ELSE GenomeSizeLoopOffByOne(N,
                      [list EXCEPT ![i].description = "1X (Homozygous)"],
                      hom_peak_index, i + 1, RAdd(sum, Rat(e, 1)))

\* calcGenomeSize: the loop from peak i on, holding sum; it relabels the peaks
RECURSIVE GenomeSizeLoop(_, _, _, _, _)
GenomeSizeLoop(N, list, hom_peak_index, i, sum) ==
    IF i > Len(list) THEN [sum |-> sum, list |-> list]
    ELSE LET e == Elements(N, list[i])
         IN  IF i > hom_peak_index
             THEN LET delta == i - hom_peak_index + 1
                  IN  GenomeSizeLoop(N,
                          [list EXCEPT ![i].description = ToString(delta) \o "X"],
                          hom_peak_index, i + 1, RAdd(sum, Rat(delta * e, 1)))
             ELSE IF i < hom_peak_index
             THEN LET delta == hom_peak_index - i + 1
                      d == "1/" \o ToString(delta) \o "X"
                  IN  GenomeSizeLoop(N,
                          [list EXCEPT ![i].description =
                              IF d = "1/2X" THEN "1/2X (Heterozygous)" ELSE d],
                          hom_peak_index, i + 1, RAdd(sum, Rat(e, delta)))
             ELSE GenomeSizeLoop(N,
                      [list EXCEPT ![i].description = "1X (Homozygous)"],
                      hom_peak_index, i + 1, RAdd(sum, Rat(e, 1)))

\* calcGenomeSize(hom_peak): the size, and the peaks as it leaves them
CalcGenomeSize(N, pk, fmax_, hom_peak) ==
    LET idx == IF hom_peak = 0 THEN GetHomozygousPeakIndex(pk, fmax_, hom_peak)
               ELSE [exc |-> "", val |-> hom_peak]
    IN  IF idx.exc # "" THEN [exc |-> idx.exc, val |-> <<0, 1>>, peaks |-> pk]
        ELSE IF idx.val = 0 THEN [exc |-> "", val |-> <<0, 1>>, peaks |-> pk]
        ELSE IF pk.none THEN [exc |-> "TypeError", val |-> <<0, 1>>, peaks |-> pk]
        ELSE LET r == GenomeSizeLoop(N, pk.list, idx.val, 1, <<0, 1>>)
             IN  [exc |-> "", val |-> r.sum, peaks |-> PeakList(r.list)]

\* calcHetRate: the sum of elements / k over the peaks before hom_peak_index
RECURSIVE HetSum(_, _, _, _, _)
HetSum(N, list, k_, hom_peak_index, i) ==
    IF i > Len(list) \/ i >= hom_peak_index THEN <<0, 1>>
    ELSE RAdd(Rat(Elements(N, list[i]), k_),
              HetSum(N, list, k_, hom_peak_index, i + 1))

\* calcHetRate(genome_size, hom_peak)
CalcHetRate(N, pk, fmax_, k_, genome_size, hom_peak) ==
    LET g == IF genome_size > 0
             THEN [exc |-> "", val |-> <<genome_size, 1>>, peaks |-> pk]
             ELSE CalcGenomeSize(N, pk, fmax_, 0)
    IN  IF g.exc # "" THEN g
        ELSE LET idx == GetHomozygousPeakIndex(g.peaks, fmax_, hom_peak)
             IN  IF idx.exc # ""
                 THEN [exc |-> idx.exc, val |-> <<0, 1>>, peaks |-> g.peaks]
                 ELSE IF idx.val < 2
                 THEN [exc |-> "", val |-> <<0, 1>>, peaks |-> g.peaks]
                 ELSE IF g.val[1] = 0
                 THEN [exc |-> "ZeroDivisionError", val |-> <<0, 1>>,
                       peaks |-> g.peaks]
                 ELSE LET sum == HetSum(N, g.peaks.list, k_, idx.val, 1)
                          q == RDiv(sum, g.val)
                      IN  [exc |-> "", val |-> Rat(q[1] * 100, q[2]),
                           peaks |-> g.peaks]

RECURSIVE SeqSum(_, _)
SeqSum(q, n) == IF n = 0 THEN 0 ELSE q[n] + SeqSum(q, n - 1)

\* calcKmerCoverage()
CalcKmerCoverage(N, pk) ==
    IF pk.none THEN [exc |-> "TypeError", val |-> 0]
    ELSE LET vols == [i \in 1..Len(pk.list) |-> Elements(N, pk.list[i])]
             prods == [i \in 1..Len(pk.list) |-> pk.list[i].mean * vols[i]]
             tot_vol == SeqSum(vols, Len(vols))
             weighted == SeqSum(prods, Len(prods))
         IN  [exc |-> "", val |-> IF tot_vol > 0 THEN weighted \div tot_vol ELSE 0]

\* the frequencies a caller passes for the homozygous peak
ApproxFreqs == {0, 2 * MinFmax, 2 * FarDelta}
\* the genome sizes a caller passes
GenomeSizes == {0, 3}

CallGetHomozygousPeakIndex ==
    /\ pc = "done"
    /\ \E f \in ApproxFreqs :
          LET r == GetHomozygousPeakIndex(peaks, fmax, f)
          IN  ret' = [op |-> "getHomozygousPeakIndex", args |-> <<f>>,
                      exc |-> r.exc, val |-> r.val]
    /\ UNCHANGED <<histogram, k, haploid, peaks, Ty, fmin, fmax, min_elements,
                   pc, p_i, prefit, fit, stderr>>

CallCalcGenomeSize ==
    /\ pc = "done"
    /\ \E hom_peak \in 0..MaxHomPeak :
          LET r == CalcGenomeSize(HLen(histogram), peaks, fmax, hom_peak)
          IN  /\ ret' = [op |-> "calcGenomeSize", args |-> <<hom_peak>>,
                         exc |-> r.exc, val |-> r.val]
              /\ peaks' = r.peaks
    /\ UNCHANGED <<histogram, k, haploid, Ty, fmin, fmax, min_elements, pc, p_i,
                   prefit, fit, stderr>>

CallCalcHetRate ==
    /\ pc = "done"
    /\ \E genome_size \in GenomeSizes, hom_peak \in ApproxFreqs :
          LET r == CalcHetRate(HLen(histogram), peaks, fmax, k, genome_size,
                               hom_peak)
          IN  /\ ret' = [op |-> "calcHetRate", args |-> <<genome_size, hom_peak>>,
                         exc |-> r.exc, val |-> r.val]
              /\ peaks' = r.peaks
    /\ UNCHANGED <<histogram, k, haploid, Ty, fmin, fmax, min_elements, pc, p_i,
                   prefit, fit, stderr>>

CallCalcKmerCoverage ==
    /\ pc = "done"
    /\ LET r == CalcKmerCoverage(HLen(histogram), peaks)
       IN  ret' = [op |-> "calcKmerCoverage", args |-> <<>>,
                   exc |-> r.exc, val |-> r.val]
    /\ UNCHANGED <<histogram, k, haploid, peaks, Ty, fmin, fmax, min_elements,
                   pc, p_i, prefit, fit, stderr>>

-----------------------------------------------------------------------------
(* The analysis of one spectra, and the calls made on it afterwards *)

Lengths == {29}
Dips == {0, 3}
Spikes == {8, 10}

Init ==
    \E N \in Lengths, lvl \in {1}, dip \in Dips, spike \in Spikes,
       hap \in BOOLEAN, me \in 0..MaxMinElements :
        Construct(MkHist(N, lvl, dip, spike, 1), hap, DefaultK, me)

Next ==
    \/ AnalyseLocate
    \/ LocalOptimise
    \/ Prune
    \/ GlobalFit
    \/ CallGetHomozygousPeakIndex
    \/ CallCalcGenomeSize
    \/ CallCalcHetRate
    \/ CallCalcKmerCoverage

Spec == Init /\ [][Next]_vars

-----------------------------------------------------------------------------
(* smooth *)

\* the padding one sample short at either end
PaddedShort(x, window_len) ==
    LET n == Len(x)
    IN  [i \in 1..(window_len - 2) |-> x[window_len - i]]
            \o x
            \o [i \in 1..(window_len - 2) |-> x[n - i]]

\* np.r_[x[window_len-1:0:-1], x, x[-2:-window_len-1:-1]], x indexed from 1
Padded(x, window_len) ==
    LET n == Len(x)
    IN  [i \in 1..(window_len - 1) |-> x[window_len + 1 - i]]
            \o x
            \o [i \in 1..(window_len - 1) |-> x[n - i]]

\* np.convolve(w / w.sum(), s, mode='valid'), w = np.ones(window_len)
Convolve(s, window_len) ==
    [j \in 1..(Len(s) - window_len + 1) |->
        Rat(SeqSum([i \in 1..window_len |-> s[j + i - 1]], window_len), window_len)]

\* smooth(x, window_len), x an array of ndim dimensions holding the values data
smooth(ndim, data, window_len) ==
    IF ndim # 1 THEN [exc |-> "ValueError", val |-> <<>>]
    ELSE IF Len(data) < window_len \/ window_len < MinWindow
    THEN [exc |-> "", val |-> [i \in 1..Len(data) |-> <<data[i], 1>>]]
    ELSE [exc |-> "", val |-> Convolve(Padded(data, window_len), window_len)]

SmoothInputs == UNION { [1..n -> 0..MaxVal] : n \in 0..MaxLen }

\* the call returns (or raises)
CallSmooth ==
    /\ ret.op = "call smooth"
    /\ LET r == smooth(ret.args[1], ret.args[2], ret.args[3])
       IN  ret' = [op |-> "smooth", args |-> ret.args, exc |-> r.exc,
                   val |-> r.val]
    /\ UNCHANGED <<histogram, k, haploid, peaks, Ty, fmin, fmax, min_elements,
                   pc, p_i, prefit, fit, stderr>>

\* a caller about to call smooth(data, window_len), data of ndim dimensions
InitSmooth ==
    \E ndim \in {1, 2}, data \in SmoothInputs, window_len \in 0..MaxWin :
        /\ histogram = Zeros(0)
        /\ k = DefaultK
        /\ haploid = FALSE
        /\ peaks = NoPeaks
        /\ Ty = Zeros(0)
        /\ fmax = 0
        /\ fmin = 0
        /\ min_elements = 1
        /\ pc = "new"
        /\ p_i = 0
        /\ prefit = NoPeaks
        /\ fit = "none"
        /\ stderr = <<>>
        /\ ret = [op |-> "call smooth", args |-> <<ndim, data, window_len>>,
                  exc |-> "", val |-> <<>>]

SpecSmooth == InitSmooth /\ [][CallSmooth]_vars

-----------------------------------------------------------------------------
(* The properties *)

SameShape(p, q) == p.mean = q.mean /\ p.stddevSq2 = q.stddevSq2

FitAttempted == pc = "done" /\ fit \in {"ok", "notconverged", "raised"}

\* C1: once optimise() has run on a non-empty peak list, however the solver
\* ended, the list has the peaks it had, each with the mean and stddev it had
\* and a height between 0 and the height it had.
FitOnlyLowersHeights ==
    (FitAttempted /\ Truthy(prefit)) =>
        /\ ~peaks.none
        /\ Len(peaks.list) = Len(prefit.list)
        /\ \A i \in 1..Len(prefit.list) :
              /\ SameShape(peaks.list[i], prefit.list[i])
              /\ peaks.list[i].peak <= prefit.list[i].peak
              /\ peaks.list[i].peak >= 0

\* a successful fit of two or more peaks that lowered a height
FitLoweredAHeight ==
    /\ pc = "done" /\ fit = "ok"
    /\ Len(prefit.list) >= 2
    /\ \E i \in 1..Len(prefit.list) :
          peaks.list[i].peak < prefit.list[i].peak

\* C2: when the global fit fails (the solver does not converge, the solver
\* raises, or no peak is left to fit), analyse() returns, a warning is on
\* stderr and every peak is as local refinement and pruning left it.
FailedFitWarns ==
    (pc = "done" /\ fit \in {"notconverged", "raised"}) =>
        /\ stderr # <<>>
        /\ peaks.none = prefit.none
        /\ Len(peaks.list) = Len(prefit.list)
        /\ \A i \in 1..Len(prefit.list) :
              /\ SameShape(peaks.list[i], prefit.list[i])
              /\ peaks.list[i].peak = prefit.list[i].peak

\* C3: on a spectra whose locator left no peaks, calcGenomeSize() returns 0
\* and calcKmerCoverage() returns 0, neither raising.
NoPeaksGiveZero ==
    (pc = "done" /\ fit = "skipped" /\ peaks.none) =>
        /\ (ret.op = "calcGenomeSize" /\ ret.args = <<0>>) =>
              (ret.exc = "" /\ ret.val = <<0, 1>>)
        /\ ret.op = "calcKmerCoverage" => (ret.exc = "" /\ ret.val = 0)

\* the candidates of the claim, doubled, in order
ClaimedCandidates ==
    IF haploid THEN <<2 * fmax, 4 * fmax, 6 * fmax, 8 * fmax>>
    ELSE <<fmax, 2 * fmax, 4 * fmax, 6 * fmax, 8 * fmax>>

\* floor(2 * sqrt(mu)): the r with r^2 <= 4 mu < (r + 1)^2
ClaimedRadius(mu2) ==
    CHOOSE r \in 0..(2 * mu2) : r * r <= 2 * mu2 /\ 2 * mu2 < (r + 1) * (r + 1)

ClaimedAccepted(mu2) ==
    /\ ClaimedRadius(mu2) >= 2
    /\ mu2 \div 2 > fmin
    /\ mu2 > 2 * ClaimedRadius(mu2)
    /\ mu2 + 2 * ClaimedRadius(mu2) < 2 * HLen(histogram)

ClaimedPeaks == SelectSeq(ClaimedCandidates, ClaimedAccepted)

Located == pc # "new"

\* C4: with fmax >= 10 the peaks emitted are exactly the candidates fmax/2
\* (unless haploid), fmax, 2 fmax, 3 fmax, 4 fmax that pass the four
\* conditions, in order, each with mean floor(mu), the histogram's value there
\* as height, and primary iff its mean is fmax.
EmitsAcceptedCandidates ==
    (Located /\ fmax >= MinFmax) =>
        /\ ~peaks.none
        /\ Len(peaks.list) = Len(ClaimedPeaks)
        /\ \A i \in 1..Len(ClaimedPeaks) :
              LET m == ClaimedPeaks[i] \div 2
              IN  /\ peaks.list[i].mean = m
                  /\ peaks.list[i].peak = At(histogram, m)
                  /\ peaks.list[i].primary = (m = fmax)

\* the heterozygous candidate is dropped for lying at or below fmin, the 4x
\* candidate for reaching past the histogram, and the three between are kept
SomeCandidatesDropped ==
    /\ Located /\ fmax >= MinFmax /\ ~haploid
    /\ fmax \div 2 <= fmin
    /\ Len(peaks.list) = 3
    /\ peaks.list[1].mean = fmax /\ peaks.list[1].primary
    /\ peaks.list[3].mean = 3 * fmax

NoLocalMinimum ==
    \A i \in 1..(HLen(histogram) - 3) :
        ~(/\ At(histogram, i) < At(histogram, i + 1)
          /\ At(histogram, i) < At(histogram, i + 2))

\* C5: a histogram with no i in 1..N-3 below both its next two bins leaves
\* fmin 0 and no peaks; and fmax < 10 leaves no peaks, minimum or not.
TooLittleSignalGivesNoPeaks ==
    Located =>
        /\ NoLocalMinimum => (fmin = 0 /\ ~Truthy(peaks))
        /\ fmax < MinFmax => ~Truthy(peaks)

\* a minimum was found, and the maximum after it lies below 10
MinimumFoundButFmaxLow ==
    /\ Located /\ ~NoLocalMinimum
    /\ fmin > 0 /\ fmax > fmin /\ fmax < MinFmax
    /\ peaks.none

\* the volume of peak i, counted as the claim counts it about index h
ClaimedShare(i, h) ==
    LET e == Elements(HLen(histogram), peaks.list[i])
    IN  IF i > h THEN Rat((i - h + 1) * e, 1)
        ELSE IF i < h THEN Rat(e, h - i + 1)
        ELSE Rat(e, 1)

RECURSIVE ClaimedGenomeSize(_, _)
ClaimedGenomeSize(h, n) ==
    IF n = 0 THEN <<0, 1>>
    ELSE RAdd(ClaimedGenomeSize(h, n - 1), ClaimedShare(n, h))

\* C6: calcGenomeSize about a resolved homozygous index h >= 1 returns the
\* sum over the peaks i of (i - h + 1) * elements_i (i > h), elements_i /
\* (h - i + 1) (i < h), elements_i (i = h); it returns 0 when the index is 0.
GenomeSizeIsWeightedSum ==
    (pc = "done" /\ ret.op = "calcGenomeSize" /\ ~peaks.none) =>
        LET h == IF ret.args[1] = 0 THEN PrimaryPeak(peaks.list, fmax)
                 ELSE ret.args[1]
        IN  /\ ret.exc = ""
            /\ ret.val = IF h = 0 THEN <<0, 1>>
                         ELSE ClaimedGenomeSize(h, Len(peaks.list))

\* three peaks sized about the second: the first counts half, the third double
GenomeSizeOfThreePeaks ==
    /\ pc = "done" /\ ret.op = "calcGenomeSize" /\ ret.args = <<2>>
    /\ ~peaks.none /\ Len(peaks.list) = 3
    /\ ret.val[2] = 2
    /\ peaks.list[1].description = "1/2X (Heterozygous)"
    /\ peaks.list[3].description = "2X"

RECURSIVE ClaimedHetVolume(_, _)
ClaimedHetVolume(h, n) ==
    IF n = 0 THEN <<0, 1>>
    ELSE RAdd(ClaimedHetVolume(h, n - 1),
              IF n < h THEN Rat(Elements(HLen(histogram), peaks.list[n]), k)
              ELSE <<0, 1>>)

\* C7: calcHetRate(genome_size, hom_peak), h the homozygous index resolved
\* from hom_peak: 0.0 when h < 2; otherwise 100 * (sum of elements_i / k over
\* i < h) / G, G the genome size given when > 0 and otherwise the genome size
\* computed about that same h, and G is never zero.
HetRateIsShareBeforeHom ==
    (pc = "done" /\ ret.op = "calcHetRate" /\ ~peaks.none) =>
        LET h == GetHomozygousPeakIndex(peaks, fmax, ret.args[2]).val
            G == IF ret.args[1] > 0 THEN <<ret.args[1], 1>>
                 ELSE ClaimedGenomeSize(h, Len(peaks.list))
            v == ClaimedHetVolume(h, Len(peaks.list))
        IN  /\ ret.exc = ""
            /\ IF h < 2 THEN ret.val = <<0, 1>>
               ELSE /\ G[1] # 0
                    /\ ret.val = Rat(100 * v[1] * G[2], v[2] * G[1])

\* C8: on a non-empty peak list, getHomozygousPeakIndex(f), f > 0, returns
\* the lowest 1-based index whose mean is nearest f; never 0.
ClosestPeakIsReturned ==
    (pc = "done" /\ ret.op = "getHomozygousPeakIndex" /\ ret.args[1] > 0
        /\ Truthy(peaks)) =>
        /\ ret.exc = ""
        /\ ret.val \in 1..Len(peaks.list)
        /\ \A j \in 1..Len(peaks.list) :
              LET d(i) == Abs(peaks.list[i].mean - ret.args[1])
              IN  /\ d(ret.val) <= d(j)
                  /\ j < ret.val => d(ret.val) < d(j)

Smoothed ==
    /\ ret.op = "smooth" /\ ret.args[1] = 1
    /\ ret.args[3] >= MinWindow /\ Len(ret.args[2]) >= ret.args[3]

IsConstant(x) == \A i \in 1..Len(x) : x[i] = x[1]

\* C9 as stated: for a window >= 3 and an input at least as long, smooth
\* returns as many values as it was given, and a constant input comes back
\* as that constant.
SmoothKeepsLength ==
    Smoothed =>
        /\ ret.exc = ""
        /\ Len(ret.val) = Len(ret.args[2])
        /\ IsConstant(ret.args[2]) =>
              \A j \in 1..Len(ret.val) : ret.val[j] = <<ret.args[2][1], 1>>

\* C9, amended: it returns len(x) + window_len - 1 values, and a constant
\* input comes back as that constant at every one of them.
SmoothAddsWindowLessOne ==
    Smoothed =>
        /\ ret.exc = ""
        /\ Len(ret.val) = Len(ret.args[2]) + ret.args[3] - 1
        /\ IsConstant(ret.args[2]) =>
              \A j \in 1..Len(ret.val) : ret.val[j] = <<ret.args[2][1], 1>>

\* a constant, non-zero input longer than its window was smoothed
SmoothedAConstant ==
    /\ Smoothed /\ ret.exc = ""
    /\ Len(ret.args[2]) > ret.args[3]
    /\ IsConstant(ret.args[2]) /\ ret.args[2][1] > 0

RECURSIVE ClaimedCurveSum(_, _)
ClaimedCurveSum(x, n) ==
    IF n = 0 THEN 0
    ELSE ClaimedCurveSum(x, n - 1) + Curve(HLen(histogram), peaks.list[n])[x]

\* the elementwise sum of the current peaks' curves
SumOfCurves ==
    [x \in 1..HLen(histogram) |-> ClaimedCurveSum(x, Len(peaks.list))]

\* C10 as stated: in every state from construction through analyse(), Ty is
\* the elementwise sum of the current peaks' curves.
TyIsSumOfCurves == Ty = SumOfCurves

\* C10, amended: Ty is the elementwise sum of the current peaks' curves once
\* a global fit has succeeded; until then, and after a failed fit, it is the
\* zeros the constructor put there.
TyIsSumOfCurvesOnceFitted ==
    Ty = IF fit = "ok" THEN SumOfCurves ELSE Zeros(HLen(histogram))

\* a fit succeeded and left a curve that is not all zeros
FittedCurveWritten ==
    /\ pc = "done" /\ fit = "ok"
    /\ Len(peaks.list) >= 2
    /\ \E x \in DOMAIN Ty : Ty[x] > 0

====
